---------------------------- MODULE Spec2Model ----------------------------
(***************************************************************************)
(* matrix-corporal: the hook data model (corporal/hook/hook.go) and the    *)
(* login request pipeline (corporal/httpgateway/handler/login.go).         *)
(*                                                                         *)
(* Spec      the request pipeline: requests served one after another by    *)
(*           the login handler: hooks -> interceptor -> deny / proxy.      *)
(* SpecHook  Hook.Validate / Hook.MatchesRequest / Hook.ensureInitialized  *)
(*           applied to Hook values drawn from bounded sets.               *)
(***************************************************************************)
EXTENDS Naturals, Sequences, FiniteSets, TLC

VARIABLES
    alive,          \* the gateway process is running (FALSE after os.Exit)
    reverseProxy,   \* loginHandler.reverseProxy, shared by every request
    call,           \* per request slot: the handler invocation's locals
    hook,           \* the Hook value held by the policy
    validateErr,    \* what the last Hook.Validate() returned
    matchResult,    \* what the last Hook.MatchesRequest() returned
    matchRequest,   \* the request of the last Hook.MatchesRequest()
    compileCalls,   \* regexp.Compile calls made by Validate()
    matchCompiles,  \* regexp.Compile calls made by MatchesRequest() calls
                    \* that followed a Validate() returning nil
    matchCalls      \* MatchesRequest() calls made so far

vars == <<alive, reverseProxy, call, hook, validateErr, matchResult,
          matchRequest, compileCalls, matchCompiles, matchCalls>>

hookVars == <<hook, validateErr, matchResult, matchRequest, compileCalls,
              matchCompiles, matchCalls>>

pipelineVars == <<alive, reverseProxy, call>>

\* A nil *string.
Nil == "nil"

\* A nil pointer or an unset value, and a set one.
None == <<>>

Some(x) == <<x>>

\* ReverseProxy.ModifyResponse: nil, or the chained function over `funcs`.
NoModifier == [set |-> FALSE, funcs |-> <<>>]

Modifier(funcs) == [set |-> TRUE, funcs |-> funcs]

(***************************************************************************)
(* Bounds of the model.                                                    *)
(***************************************************************************)
\* hooks of one event type that match one request
MaxMatched == 2
\* response modifier functions queued by one request
MaxQueue == 2
\* MatchesRequest() calls on one Hook value
MaxMatchCalls == 2

\* The request slot of the sequential pipeline specification.
Reqs == {"r1"}

(***************************************************************************)
(* Event types and actions (hook.go).                                      *)
(***************************************************************************)
EventTypeBeforeAnyRequest == "beforeAnyRequest"

EventTypeBeforeAuthenticatedPolicyCheckedRequest == "beforeAuthenticatedPolicyCheckedRequest"

\* Named by login.go; hook.go does not define them.
EventTypeBeforeUnauthenticatedRequest == "beforeUnauthenticatedRequest"

EventTypeAfterAnyRequest == "afterAnyRequest"

EventTypeAfterUnauthenticatedRequest == "afterUnauthenticatedRequest"

knownEventTypes ==
    << EventTypeBeforeAnyRequest,
       EventTypeBeforeAuthenticatedPolicyCheckedRequest >>

ActionConsultRESTServiceURL == "consult.RESTServiceURL"

ActionRespond == "respond"

ActionReject == "reject"

ActionPassUnmodified == "pass.unmodified"

ActionPassInjectJSONIntoResponse == "pass.injectJSONIntoResponse"

knownActions ==
    << ActionConsultRESTServiceURL, ActionRespond, ActionReject,
       ActionPassUnmodified, ActionPassInjectJSONIntoResponse >>

\* util.IsStringInArray
IsStringInArray(s, arr) == \E i \in 1..Len(arr) : arr[i] = s

(***************************************************************************)
(* The request pipeline (login.go).                                        *)
(***************************************************************************)
hooksToRunAfterFirst ==
    << EventTypeAfterAnyRequest,
       EventTypeAfterUnauthenticatedRequest,
       EventTypeBeforeAnyRequest,
       EventTypeBeforeUnauthenticatedRequest >>

hooksToRun ==
    << EventTypeBeforeAnyRequest,
       EventTypeBeforeUnauthenticatedRequest,
       EventTypeAfterAnyRequest,
       EventTypeAfterUnauthenticatedRequest >>

StatusForbidden == 403

InterceptorResultDeny == "deny"

InterceptorResultProxy == "proxy"

\* The requests the router hands to the login handler: POST on the login path.
LoginRequests ==
    { [Method |-> "POST", RequestURI |-> u] :
        u \in {"/_matrix/client/r0/login", "/_matrix/client/r0/login?x=1"} }

\* The fields an InjectJSON hook merges into the response body.
InjectFields ==
    { [custom_field |-> "v1"], [custom_field |-> "v2"], [other |-> "w"] }

\* The outcomes a matched hook resolves to.
Outcomes ==
    { [type |-> "Abort", status |-> 403, errorCode |-> "M_FORBIDDEN",
       errorMessage |-> "Denied by policy"],
      [type |-> "RespondNow", status |-> 200,
       contentType |-> "application/json", body |-> "{}"],
      [type |-> "InternalError"],
      [type |-> "Continue"] }
    \cup { [type |-> "ContinueWithResponseRewrite", fields |-> f] :
             f \in InjectFields }

\* What an interceptor may hand back: Deny, Proxy, or something else.
InterceptorResults ==
    { [Result |-> InterceptorResultDeny, Status |-> st, ErrorCode |-> ec,
       ErrorMessage |-> "denied"] :
         st \in {401, 403}, ec \in {"M_FORBIDDEN", "M_UNKNOWN"} }
    \cup { [Result |-> InterceptorResultProxy, Status |-> 0, ErrorCode |-> "",
            ErrorMessage |-> ""],
           [Result |-> "", Status |-> 0, ErrorCode |-> "",
            ErrorMessage |-> ""] }

UpstreamBodies ==
    { [user_id |-> "@a:x"], [user_id |-> "@b:x", custom_field |-> "up"] }

SeqsUpTo(S, n) == UNION { [1..k -> S] : k \in 0..n }

\* httphelp.RespondWithMatrixError: the protocol error envelope.
RespondWithMatrixError(status, errorCode, errorMessage) ==
    [kind |-> "matrixError", status |-> status, errcode |-> errorCode,
     error |-> errorMessage]

\* One response modifier function of an InjectJSON hook, run on a response.
InjectJSON(fields, resp) ==
    [body |-> [k \in DOMAIN resp.body \cup DOMAIN fields |->
                 IF k \in DOMAIN fields THEN fields[k] ELSE resp.body[k]],
     applied |-> Append(resp.applied, fields)]

\* hook.CreateChainedHttpResponseModifierFunc: the returned function, run.
RECURSIVE CreateChainedHttpResponseModifierFunc(_, _)
CreateChainedHttpResponseModifierFunc(funcs, resp) ==
    IF funcs = <<>>
    THEN resp
    ELSE CreateChainedHttpResponseModifierFunc(
             Tail(funcs), InjectJSON(Head(funcs), resp))

\* httputil.ReverseProxy.ServeHTTP: forward, then run ModifyResponse if set.
ServeHTTP(proxy, upstreamBody) ==
    LET resp == [body |-> upstreamBody, applied |-> <<>>] IN
    IF ~proxy.ModifyResponse.set
    THEN resp
    ELSE CreateChainedHttpResponseModifierFunc(proxy.ModifyResponse.funcs, resp)

\* runHook: the matched hooks of one event type, evaluated in declared order.
RECURSIVE runHook(_, _)
runHook(outs, funcs) ==
    IF outs = <<>>
    THEN [ok |-> TRUE, funcs |-> funcs, response |-> None,
          disposition |-> "none"]
    ELSE LET o == Head(outs) IN
         CASE o.type = "Abort" ->
                [ok |-> FALSE, funcs |-> funcs,
                 response |-> Some(RespondWithMatrixError(
                                  o.status, o.errorCode, o.errorMessage)),
                 disposition |-> "Abort"]
           [] o.type = "RespondNow" ->
                [ok |-> FALSE, funcs |-> funcs,
                 response |-> Some([kind |-> "literal", status |-> o.status,
                                    contentType |-> o.contentType,
                                    body |-> o.body]),
                 disposition |-> "RespondNow"]
           [] o.type = "InternalError" ->
                [ok |-> FALSE, funcs |-> funcs,
                 response |-> Some([kind |-> "internalError"]),
                 disposition |-> "InternalError"]
           [] o.type = "ContinueWithResponseRewrite" ->
                runHook(Tail(outs), Append(funcs, o.fields))
           [] OTHER -> runHook(Tail(outs), funcs)

IdleCall ==
    [pc |-> "idle", request |-> None, phase |-> 0,
     httpResponseModifierFuncs |-> <<>>, interceptorResult |-> None,
     response |-> None, disposition |-> "none", trace |-> <<>>,
     runHookReturned |-> <<>>,
     applied |-> <<>>, proxy |-> None, upstreamBody |-> None]

\* login.go:51-56: the handler is entered, its locals are fresh.
EnterHandler(q) ==
    [IdleCall EXCEPT !.pc = "hooks", !.request = Some(q), !.phase = 1]

\* A handler that carries on after runHook returned false.
PhaseLoopStepNoReturn(c, res) ==
    LET c1 == [c EXCEPT !.trace = Append(@, hooksToRun[c.phase]),
                        !.runHookReturned = Append(@, res.ok),
                        !.httpResponseModifierFuncs = res.funcs,
                        !.response = IF res.ok THEN @ ELSE res.response,
                        !.disposition = IF res.ok THEN @ ELSE res.disposition]
    IN IF c.phase = Len(hooksToRun)
       THEN [c1 EXCEPT !.pc = "intercept"]
       ELSE [c1 EXCEPT !.phase = @ + 1]

\* A loop that returns on Abort and RespondNow but carries on after a hook
\* phase that failed with an internal error.
PhaseLoopStepFailOpen(c, res) ==
    LET c1 == [c EXCEPT !.trace = Append(@, hooksToRun[c.phase]),
                        !.runHookReturned = Append(@, res.ok),
                        !.httpResponseModifierFuncs = res.funcs]
    IN IF ~res.ok /\ res.disposition # "InternalError"
       THEN [c1 EXCEPT !.pc = "done", !.response = res.response,
                       !.disposition = res.disposition]
       ELSE IF c.phase = Len(hooksToRun)
            THEN [c1 EXCEPT !.pc = "intercept"]
            ELSE [c1 EXCEPT !.phase = @ + 1]

\* A loop that returns on a refusing before phase only: what an after phase
\* returns is not looked at.
PhaseLoopStepBeforeOnly(c, res) ==
    LET c1 == [c EXCEPT !.trace = Append(@, hooksToRun[c.phase]),
                        !.runHookReturned = Append(@, res.ok),
                        !.httpResponseModifierFuncs = res.funcs]
    IN IF ~res.ok /\ c.phase <= 2
       THEN [c1 EXCEPT !.pc = "done", !.response = res.response,
                       !.disposition = res.disposition]
       ELSE IF c.phase = Len(hooksToRun)
            THEN [c1 EXCEPT !.pc = "intercept"]
            ELSE [c1 EXCEPT !.phase = @ + 1]

\* login.go:61-65: one iteration of the loop over hooksToRun.
PhaseLoopStep(c, res) ==
    LET c1 == [c EXCEPT !.trace = Append(@, hooksToRun[c.phase]),
                        !.runHookReturned = Append(@, res.ok),
                        !.httpResponseModifierFuncs = res.funcs]
    IN IF ~res.ok
       THEN [c1 EXCEPT !.pc = "done", !.response = res.response,
                       !.disposition = res.disposition]
       ELSE IF c.phase = Len(hooksToRun)
            THEN [c1 EXCEPT !.pc = "intercept"]
            ELSE [c1 EXCEPT !.phase = @ + 1]

\* A deny branch that answers with a fixed error code.
DenyBranchGenericCode(c, ir) ==
    [c EXCEPT !.pc = "done", !.interceptorResult = Some(ir),
              !.trace = @ \o <<"intercept", "deny">>,
              !.response = Some(RespondWithMatrixError(
                               StatusForbidden, "M_FORBIDDEN", ir.ErrorMessage)),
              !.disposition = "Deny"]

\* A deny branch that runs the queued response modifiers on what it writes.
DenyBranchModifies(c, ir) ==
    [c EXCEPT !.pc = "done", !.interceptorResult = Some(ir),
              !.trace = @ \o <<"intercept", "deny">>,
              !.response = Some(RespondWithMatrixError(
                               StatusForbidden, ir.ErrorCode, ir.ErrorMessage)),
              !.applied = c.httpResponseModifierFuncs,
              !.disposition = "Deny"]

\* login.go:67-86: the interceptor denies.
DenyBranch(c, ir) ==
    [c EXCEPT !.pc = "done", !.interceptorResult = Some(ir),
              !.trace = @ \o <<"intercept", "deny">>,
              !.response = Some(RespondWithMatrixError(
                               StatusForbidden, ir.ErrorCode, ir.ErrorMessage)),
              !.disposition = "Deny"]

\* The result of proxying with reverse proxy value `proxy`.
Proxied(c, ir, proxy, upstreamBody) ==
    LET out == ServeHTTP(proxy, upstreamBody) IN
    [c EXCEPT !.pc = "done", !.interceptorResult = Some(ir),
              !.trace = @ \o <<"intercept", "serveHTTP">>,
              !.proxy = Some(proxy), !.upstreamBody = Some(upstreamBody),
              !.response = Some([kind |-> "proxied", body |-> out.body]),
              !.applied = out.applied,
              !.disposition = "Proxy"]

\* A proxy branch that chains the queued modifiers last to first.
ProxyBranchReversed(c, ir, shared, upstreamBody) ==
    LET funcs == c.httpResponseModifierFuncs
        n == Len(funcs)
    IN Proxied(c, ir,
               IF n = 0
               THEN [shared |-> TRUE, ModifyResponse |-> shared.ModifyResponse]
               ELSE [shared |-> FALSE,
                     ModifyResponse |->
                         Modifier([i \in 1..n |-> funcs[n + 1 - i]])],
               upstreamBody)

\* A proxy branch that installs the chained modifier whatever the queue holds.
ProxyBranchAlwaysCopies(c, ir, shared, upstreamBody) ==
    Proxied(c, ir,
            [shared |-> FALSE,
             ModifyResponse |-> Modifier(c.httpResponseModifierFuncs)],
            upstreamBody)

\* login.go:67-104: the interceptor lets the request through.
ProxyBranch(c, ir, shared, upstreamBody) ==
    Proxied(c, ir,
            IF Len(c.httpResponseModifierFuncs) = 0
            THEN [shared |-> TRUE, ModifyResponse |-> shared.ModifyResponse]
            ELSE [shared |-> FALSE,
                  ModifyResponse |-> Modifier(c.httpResponseModifierFuncs)],
            upstreamBody)

\* login.go:67-106: neither Deny nor Proxy; logger.Fatalf never returns.
FatalBranch(c, ir) ==
    [c EXCEPT !.pc = "exited", !.interceptorResult = Some(ir),
              !.trace = @ \o <<"intercept", "fatal">>,
              !.disposition = "Fatal"]

(***************************************************************************)
(* Actions of the pipeline.                                                *)
(***************************************************************************)
\* The server calls the handler for a request on a free slot.
ReceiveRequest(r) ==
    /\ alive
    /\ call[r].pc \in {"idle", "done"}
    /\ \E q \in LoginRequests : call' = [call EXCEPT ![r] = EnterHandler(q)]
    /\ UNCHANGED <<alive, reverseProxy, hookVars>>

\* One iteration of the phase loop: runHook on the next event type.
RunHookPhase(r) ==
    /\ alive
    /\ call[r].pc = "hooks"
    /\ \E outs \in SeqsUpTo(Outcomes, MaxMatched) :
         LET res == runHook(outs, call[r].httpResponseModifierFuncs) IN
         /\ Len(res.funcs) <= MaxQueue
         /\ call' = [call EXCEPT ![r] = PhaseLoopStep(call[r], res)]
    /\ UNCHANGED <<alive, reverseProxy, hookVars>>

InterceptDeny(r) ==
    /\ alive
    /\ call[r].pc = "intercept"
    /\ \E ir \in InterceptorResults :
         /\ ir.Result = InterceptorResultDeny
         /\ call' = [call EXCEPT ![r] = DenyBranch(call[r], ir)]
    /\ UNCHANGED <<alive, reverseProxy, hookVars>>

InterceptProxy(r) ==
    /\ alive
    /\ call[r].pc = "intercept"
    /\ \E ir \in InterceptorResults, ub \in UpstreamBodies :
         /\ ir.Result = InterceptorResultProxy
         /\ call' = [call EXCEPT
                       ![r] = ProxyBranch(call[r], ir, reverseProxy, ub)]
    /\ UNCHANGED <<alive, reverseProxy, hookVars>>

InterceptUnexpected(r) ==
    /\ alive
    /\ call[r].pc = "intercept"
    /\ \E ir \in InterceptorResults :
         /\ ir.Result \notin {InterceptorResultDeny, InterceptorResultProxy}
         /\ call' = [call EXCEPT ![r] = FatalBranch(call[r], ir)]
    /\ alive' = FALSE
    /\ UNCHANGED <<reverseProxy, hookVars>>

DefaultHook ==
    [ID |-> "h1", EventType |-> EventTypeBeforeAnyRequest,
     RouteMatchesRegex |-> Nil, RouteMatchesRegexCompiled |-> None,
     MethodMatchesRegex |-> Nil, MethodMatchesRegexCompiled |-> None,
     Action |-> ActionPassUnmodified]

HookIdle ==
    /\ validateErr = [called |-> FALSE, isNil |-> FALSE, msg |-> <<>>]
    /\ matchResult = [called |-> FALSE, value |-> "none"]
    /\ matchRequest = None
    /\ compileCalls = 0
    /\ matchCompiles = 0
    /\ matchCalls = 0

PipelineIdle ==
    /\ alive = TRUE
    /\ reverseProxy = [ModifyResponse |-> NoModifier]
    /\ call = [r \in Reqs |-> IdleCall]

Init ==
    /\ PipelineIdle
    /\ hook = DefaultHook
    /\ HookIdle

HandlerEntered == \E r \in DOMAIN call : ReceiveRequest(r)

PhaseEvaluated == \E r \in DOMAIN call : RunHookPhase(r)

RequestDenied == \E r \in DOMAIN call : InterceptDeny(r)

RequestProxied == \E r \in DOMAIN call : InterceptProxy(r)

ProcessExited == \E r \in DOMAIN call : InterceptUnexpected(r)

Next ==
    \/ HandlerEntered
    \/ PhaseEvaluated
    \/ RequestDenied
    \/ RequestProxied
    \/ ProcessExited

Spec == Init /\ [][Next]_vars

(***************************************************************************)
(* The Hook model (hook.go).                                               *)
(***************************************************************************)
\* Regular expression sources a policy may give, "(" being malformed.
RegexSources == {"^(POST|PUT)$", "^/login$", "login", "("}

RequestMethods == {"GET", "POST", "PUT"}

RequestURIs == {"/login", "/logout", "/login?x=1"}

\* regexp.Compile: the compiled expression, or an error.
RegexpCompile(src) ==
    IF src = "("
    THEN [err |-> Some("missing closing )"), regex |-> None]
    ELSE [err |-> None, regex |-> Some([expr |-> src])]

\* The strings, among the methods and request URIs, a compiled regex matches.
RegexLanguage(expr) ==
    CASE expr = "^(POST|PUT)$" -> {"POST", "PUT"}
      [] expr = "^/login$" -> {"/login"}
      [] expr = "login" -> {"/login", "/login?x=1"}
      [] OTHER -> {}

\* (*regexp.Regexp).MatchString
MatchString(regex, str) == str \in RegexLanguage(regex.expr)

\* An initialisation that compiles the route regex only.
ensureInitializedRouteOnly(me) ==
    IF me.RouteMatchesRegex # Nil
    THEN LET c == RegexpCompile(me.RouteMatchesRegex) IN
         IF c.err # None
         THEN [me |-> me, err |-> c.err, compiles |-> 1]
         ELSE [me |-> [me EXCEPT !.RouteMatchesRegexCompiled = c.regex],
               err |-> None, compiles |-> 1]
    ELSE [me |-> me, err |-> None, compiles |-> 0]

\* Hook.ensureInitialized, on the Hook value `me` its receiver points to:
\* the value afterwards, the error, and the regexp.Compile calls made.
ensureInitialized(me) ==
    LET r == IF me.RouteMatchesRegex # Nil
             THEN RegexpCompile(me.RouteMatchesRegex)
             ELSE [err |-> None, regex |-> me.RouteMatchesRegexCompiled]
        nr == IF me.RouteMatchesRegex # Nil THEN 1 ELSE 0
    IN IF r.err # None
       THEN [me |-> me, err |-> r.err, compiles |-> nr]
       ELSE LET me1 == [me EXCEPT !.RouteMatchesRegexCompiled = r.regex]
                m == IF me.MethodMatchesRegex # Nil
                     THEN RegexpCompile(me.MethodMatchesRegex)
                     ELSE [err |-> None,
                           regex |-> me.MethodMatchesRegexCompiled]
                nm == IF me.MethodMatchesRegex # Nil THEN 1 ELSE 0
            IN IF m.err # None
               THEN [me |-> me1, err |-> m.err, compiles |-> nr + nm]
               ELSE [me |-> [me1 EXCEPT !.MethodMatchesRegexCompiled = m.regex],
                     err |-> None, compiles |-> nr + nm]

\* A validation that checks id, event type and action and compiles nothing.
ValidateWithoutInitialization(me) ==
    IF me.ID = ""
    THEN [isNil |-> FALSE, msg |-> <<"Hook has no id">>, compiles |-> 0,
          me |-> me]
    ELSE IF ~IsStringInArray(me.EventType, knownEventTypes)
    THEN [isNil |-> FALSE,
          msg |-> <<me.EventType, " is an invalid event type for hook #",
                    me.ID>>,
          compiles |-> 0, me |-> me]
    ELSE IF ~IsStringInArray(me.Action, knownActions)
    THEN [isNil |-> FALSE,
          msg |-> <<me.Action, " is an invalid action for hook #", me.ID>>,
          compiles |-> 0, me |-> me]
    ELSE [isNil |-> TRUE, msg |-> <<>>, compiles |-> 0, me |-> me]

\* Hook.Validate on a copy `me` of the Hook (value receiver): the error
\* returned (isNil, or the parts of its message), the Compile calls made and
\* the copy as the call leaves it.
Validate(me) ==
    IF me.ID = ""
    THEN [isNil |-> FALSE, msg |-> <<"Hook has no id">>, compiles |-> 0,
          me |-> me]
    ELSE IF ~IsStringInArray(me.EventType, knownEventTypes)
    THEN [isNil |-> FALSE,
          msg |-> <<me.EventType, " is an invalid event type for hook #",
                    me.ID>>,
          compiles |-> 0, me |-> me]
    ELSE IF ~IsStringInArray(me.Action, knownActions)
    THEN [isNil |-> FALSE,
          msg |-> <<me.Action, " is an invalid action for hook #", me.ID>>,
          compiles |-> 0, me |-> me]
    ELSE LET init == ensureInitialized(me) IN
         IF init.err # None
         THEN [isNil |-> FALSE,
               msg |-> <<"Error when initializing hook #", me.ID, ": ",
                         init.err[1]>>,
               compiles |-> init.compiles, me |-> init.me]
         ELSE [isNil |-> TRUE, msg |-> <<>>, compiles |-> init.compiles,
               me |-> init.me]

\* A match that is satisfied by either configured dimension.
MatchesRequestEither(me, request) ==
    LET init == ensureInitialized(me) IN
    IF init.err # None
    THEN [value |-> "panic", compiles |-> init.compiles, me |-> init.me]
    ELSE LET h == init.me
             mOk == /\ h.MethodMatchesRegexCompiled # None
                    /\ MatchString(h.MethodMatchesRegexCompiled[1],
                                   request.Method)
             rOk == /\ h.RouteMatchesRegexCompiled # None
                    /\ MatchString(h.RouteMatchesRegexCompiled[1],
                                   request.RequestURI)
             none == /\ h.MethodMatchesRegexCompiled = None
                     /\ h.RouteMatchesRegexCompiled = None
         IN [value |-> IF mOk \/ rOk \/ none THEN "true" ELSE "false",
             compiles |-> init.compiles, me |-> init.me]

\* Hook.MatchesRequest on a copy `me` of the Hook (value receiver): true,
\* false or a panic, the Compile calls made and the copy as the call leaves it.
MatchesRequest(me, request) ==
    LET init == ensureInitialized(me) IN
    IF init.err # None
    THEN [value |-> "panic", compiles |-> init.compiles, me |-> init.me]
    ELSE LET h == init.me IN
         IF /\ h.MethodMatchesRegexCompiled # None
            /\ ~MatchString(h.MethodMatchesRegexCompiled[1], request.Method)
         THEN [value |-> "false", compiles |-> init.compiles, me |-> init.me]
         ELSE IF /\ h.RouteMatchesRegexCompiled # None
                 /\ ~MatchString(h.RouteMatchesRegexCompiled[1],
                                 request.RequestURI)
         THEN [value |-> "false", compiles |-> init.compiles, me |-> init.me]
         ELSE [value |-> "true", compiles |-> init.compiles, me |-> init.me]

\* The Hook values a policy document may hold, as parsed (nothing compiled).
Hooks ==
    [ID : {"", "h1"},
     EventType : {EventTypeBeforeAnyRequest,
                  EventTypeBeforeAuthenticatedPolicyCheckedRequest,
                  EventTypeAfterAnyRequest, "unknownEvent"},
     RouteMatchesRegex : {Nil} \cup RegexSources,
     RouteMatchesRegexCompiled : {None},
     MethodMatchesRegex : {Nil} \cup RegexSources,
     MethodMatchesRegexCompiled : {None},
     Action : {ActionReject, ActionPassUnmodified, "unknownAction"}]

\* Methods with a pointer receiver: the caller's Hook is the one worked on.
PointerReceiver(caller, copy) == copy

\* func (me Hook) Validate / MatchesRequest: the receiver is a copy of the
\* caller's Hook; the caller's Hook after the call is what it was before.
ValueReceiver(caller, copy) == caller

\* Policy loading calls Validate() on the Hook; the receiver is a copy, the
\* Hook held by the policy is not written.
ValidateHook ==
    /\ ~validateErr.called
    /\ LET v == Validate(hook) IN
       /\ validateErr' = [called |-> TRUE, isNil |-> v.isNil, msg |-> v.msg]
       /\ compileCalls' = compileCalls + v.compiles
       /\ hook' = ValueReceiver(hook, v.me)
    /\ UNCHANGED <<matchResult, matchRequest, matchCompiles, matchCalls,
                   pipelineVars>>

\* Request handling calls MatchesRequest() on the Hook; the receiver is a
\* copy, the Hook held by the policy is not written.
MatchHook ==
    /\ matchCalls < MaxMatchCalls
    /\ \E m \in RequestMethods, u \in RequestURIs :
         LET q == [Method |-> m, RequestURI |-> u]
             res == MatchesRequest(hook, q)
         IN /\ matchResult' = [called |-> TRUE, value |-> res.value]
            /\ matchRequest' = Some(q)
            /\ matchCompiles' =
                  IF validateErr.called /\ validateErr.isNil
                  THEN matchCompiles + res.compiles
                  ELSE matchCompiles
            /\ hook' = ValueReceiver(hook, res.me)
    /\ matchCalls' = matchCalls + 1
    /\ UNCHANGED <<validateErr, compileCalls, pipelineVars>>

InitHook ==
    /\ PipelineIdle
    /\ hook \in Hooks
    /\ HookIdle

NextHook == ValidateHook \/ MatchHook

SpecHook == InitHook /\ [][NextHook]_vars

(***************************************************************************)
(* Properties of the request pipeline, checked under Spec.                 *)
(***************************************************************************)
HookDispositions == {"Abort", "RespondNow", "InternalError"}

\* The order login.go declares: the four event types, then the interceptor.
PipelineOrder ==
    << "beforeAnyRequest", "beforeUnauthenticatedRequest", "afterAnyRequest",
       "afterUnauthenticatedRequest", "intercept" >>

AfterEventTypes == {"afterAnyRequest", "afterUnauthenticatedRequest"}

\* C1: a request whose hook phase refused (runHook returned false with Abort,
\* RespondNow or InternalError) is finished at that phase: the phases run are
\* exactly those up to the refusing one, the interceptor was not consulted,
\* no reverse proxy was used and nothing reached the upstream.
C1_RefusingPhaseEndsPipeline ==
    \A r \in DOMAIN call :
        LET c == call[r] IN
        c.disposition \in HookDispositions =>
            /\ c.pc = "done"
            /\ c.trace = SubSeq(hooksToRun, 1, c.phase)
            /\ c.interceptorResult = None
            /\ c.proxy = None
            /\ c.upstreamBody = None

\* C1 witness: the first phase aborted, three phases were left unevaluated.
C1_Witness ==
    \E r \in DOMAIN call :
        /\ call[r].disposition = "Abort"
        /\ call[r].pc = "done"
        /\ call[r].phase = 1
        /\ call[r].trace = <<"beforeAnyRequest">>

\* C2 (as claimed): no after-phase event type is evaluated before the
\* interceptor has returned its decision.
C2_AfterPhasesFollowInterceptor ==
    \A r \in DOMAIN call :
        LET t == call[r].trace IN
        \A i \in 1..Len(t) :
            t[i] \in AfterEventTypes => \E j \in 1..(i - 1) : t[j] = "intercept"

\* C2 (amended): the steps run in the declared order before-any,
\* before-unauthenticated, after-any, after-unauthenticated, interceptor,
\* then deny / proxy / fatal; all four phases are evaluated before the
\* interceptor is consulted, and response modifiers queued by the phases run
\* only once the interceptor has decided Proxy and the request was forwarded.
C2_PhasesThenInterceptor ==
    \A r \in DOMAIN call :
        LET c == call[r]
            t == call[r].trace
        IN /\ Len(t) <= 6
           /\ \A i \in 1..Len(t) :
                /\ i <= 5 => t[i] = PipelineOrder[i]
                /\ i = 6 => t[i] \in {"deny", "serveHTTP", "fatal"}
           /\ c.applied # <<>> =>
                /\ Len(t) = 6
                /\ t[6] = "serveHTTP"
                /\ c.interceptorResult[1].Result = InterceptorResultProxy

\* C2 witness: a request went through all four phases and the interceptor,
\* was proxied, and its queued modifiers ran.
C2_Witness ==
    \E r \in DOMAIN call :
        /\ Len(call[r].trace) = 6
        /\ call[r].trace[6] = "serveHTTP"
        /\ call[r].applied # <<>>

\* C3 (as claimed): an interceptor result that is neither Deny nor Proxy ends
\* the request with a generic internal-error response and the process keeps
\* running.
C3_UnexpectedResultKeepsRunning ==
    \A r \in DOMAIN call :
        LET c == call[r] IN
        ( /\ c.interceptorResult # None
          /\ c.interceptorResult[1].Result
                \notin {InterceptorResultDeny, InterceptorResultProxy} )
        => /\ alive
           /\ c.response = Some([kind |-> "internalError"])

\* C4 (as claimed): a denied request is answered with the error envelope
\* carrying the interceptor's status, error code and error message.
C4_DenyCarriesInterceptorStatus ==
    \A r \in DOMAIN call :
        LET c == call[r] IN
        c.disposition = "Deny" =>
            c.response = Some([kind |-> "matrixError",
                               status |-> c.interceptorResult[1].Status,
                               errcode |-> c.interceptorResult[1].ErrorCode,
                               error |-> c.interceptorResult[1].ErrorMessage])

\* C4 (amended): a denied request is answered with the error envelope
\* carrying status 403 Forbidden, whatever status the interceptor gave, and
\* exactly the interceptor's error code and error message.
C4_DenyCarriesForbidden ==
    \A r \in DOMAIN call :
        LET c == call[r] IN
        c.disposition = "Deny" =>
            c.response = Some([kind |-> "matrixError",
                               status |-> 403,
                               errcode |-> c.interceptorResult[1].ErrorCode,
                               error |-> c.interceptorResult[1].ErrorMessage])

\* C4 witness: the interceptor denied with status 401 and M_UNKNOWN.
C4_Witness ==
    \E r \in DOMAIN call :
        /\ call[r].disposition = "Deny"
        /\ call[r].interceptorResult[1].Status = 401
        /\ call[r].interceptorResult[1].ErrorCode = "M_UNKNOWN"
        /\ call[r].response # None

\* C5: a request that ended in Abort, Deny or RespondNow had no queued
\* response modifier run, was not forwarded, and its response is not a
\* proxied one, however many modifiers were queued.
C5_NoRewriteOffProxyPath ==
    \A r \in DOMAIN call :
        LET c == call[r] IN
        c.disposition \in {"Abort", "Deny", "RespondNow"} =>
            /\ c.applied = <<>>
            /\ c.upstreamBody = None
            /\ c.proxy = None
            /\ c.response # None
            /\ c.response[1].kind # "proxied"

\* C5 witness: a request denied by the interceptor with two modifiers queued.
C5_Witness ==
    \E r \in DOMAIN call :
        /\ call[r].disposition = "Deny"
        /\ Len(call[r].httpResponseModifierFuncs) >= 2
        /\ call[r].applied = <<>>

\* The positions of the queued modifiers that set key k.
Setters(funcs, k) == { i \in 1..Len(funcs) : k \in DOMAIN funcs[i] }

Last(S) == CHOOSE i \in S : \A j \in S : j <= i

\* C6: on the proxy path with queued modifiers, the modifiers run are the
\* queued ones, each once and in queue order, and the final body holds, for
\* every key, the value of the last queued modifier setting it (the upstream
\* value when none does).
C6_RewritesRunOnceInOrder ==
    \A r \in DOMAIN call :
        LET c == call[r]
            funcs == call[r].httpResponseModifierFuncs
        IN (c.disposition = "Proxy" /\ funcs # <<>>) =>
            /\ c.applied = funcs
            /\ LET body == c.response[1].body
                   up == c.upstreamBody[1]
               IN /\ DOMAIN body =
                        DOMAIN up \cup
                        UNION { DOMAIN funcs[i] : i \in 1..Len(funcs) }
                  /\ \A k \in DOMAIN body :
                        body[k] = IF Setters(funcs, k) = {}
                                  THEN up[k]
                                  ELSE funcs[Last(Setters(funcs, k))][k]

\* C6 witness: two queued modifiers set custom_field, the later one wins.
C6_Witness ==
    \E r \in DOMAIN call :
        /\ call[r].disposition = "Proxy"
        /\ call[r].httpResponseModifierFuncs =
              << [custom_field |-> "v1"], [custom_field |-> "v2"] >>
        /\ call[r].response[1].body.custom_field = "v2"

\* C7: on the proxy path with no queued modifier the handler serves through
\* the shared reverse proxy itself, installs no response modifier, and the
\* client gets the upstream body unchanged.
C7_EmptyQueueUsesSharedProxy ==
    \A r \in DOMAIN call :
        LET c == call[r] IN
        (c.disposition = "Proxy" /\ c.httpResponseModifierFuncs = <<>>) =>
            /\ c.proxy = Some([shared |-> TRUE, ModifyResponse |-> NoModifier])
            /\ reverseProxy.ModifyResponse = NoModifier
            /\ c.applied = <<>>
            /\ c.response = Some([kind |-> "proxied",
                                  body |-> c.upstreamBody[1]])

\* C7 witness: a request proxied with an empty queue.
C7_Witness ==
    \E r \in DOMAIN call :
        /\ call[r].disposition = "Proxy"
        /\ call[r].httpResponseModifierFuncs = <<>>
        /\ call[r].response =
              Some([kind |-> "proxied", body |-> [user_id |-> "@a:x"]])

(***************************************************************************)
(* Properties of the Hook model, checked under SpecHook.                   *)
(***************************************************************************)
\* The regex source is absent, or present and well-formed.
CompilesIfPresent(src) == src = Nil \/ RegexpCompile(src).err = None

\* The dimension is not configured, or its regex matches the string.
DimensionMatches(src, str) ==
    \/ src = Nil
    \/ /\ RegexpCompile(src).err = None
       /\ str \in RegexLanguage(src)

\* C8: Validate() returns nil exactly for the Hooks with a non-empty id, a
\* known event type, a known action and well-formed regexes where present;
\* every other Hook gets an error whose message holds the Hook's id.
C8_ValidateIffWellFormed ==
    validateErr.called =>
        /\ validateErr.isNil <=>
              /\ hook.ID # ""
              /\ hook.EventType \in
                    {"beforeAnyRequest",
                     "beforeAuthenticatedPolicyCheckedRequest"}
              /\ hook.Action \in
                    {"consult.RESTServiceURL", "respond", "reject",
                     "pass.unmodified", "pass.injectJSONIntoResponse"}
              /\ CompilesIfPresent(hook.RouteMatchesRegex)
              /\ CompilesIfPresent(hook.MethodMatchesRegex)
        /\ ~validateErr.isNil =>
              \/ hook.ID = ""
              \/ \E i \in 1..Len(validateErr.msg) : validateErr.msg[i] = hook.ID

\* C8 witness: a Hook with a known event type and action and a well-formed
\* route regex was rejected for its malformed method regex, by name.
C8_Witness ==
    /\ validateErr.called
    /\ ~validateErr.isNil
    /\ hook.ID = "h1"
    /\ hook.RouteMatchesRegex = "^/login$"
    /\ hook.MethodMatchesRegex = "("
    /\ validateErr.msg[2] = "h1"

\* C9: MatchesRequest() returns true exactly when the method regex is absent
\* or matches the request method and the route regex is absent or matches the
\* request URI; a Hook with method regex ^(POST|PUT)$ never matches a GET.
C9_MatchesIffAllDimensions ==
    matchResult.called =>
        LET q == matchRequest[1] IN
        /\ matchResult.value = "true" <=>
              /\ DimensionMatches(hook.MethodMatchesRegex, q.Method)
              /\ DimensionMatches(hook.RouteMatchesRegex, q.RequestURI)
        /\ (hook.MethodMatchesRegex = "^(POST|PUT)$" /\ q.Method = "GET")
              => matchResult.value # "true"

\* C9 witness: the route matches, the method does not, the Hook does not match.
C9_Witness ==
    /\ matchResult.called
    /\ hook.MethodMatchesRegex = "^(POST|PUT)$"
    /\ hook.RouteMatchesRegex = "^/login$"
    /\ matchRequest = Some([Method |-> "GET", RequestURI |-> "/login"])
    /\ matchResult.value = "false"

\* C10 (as claimed): once Validate() has returned nil, the compiled matchers
\* are attached to the Hook and no MatchesRequest() call compiles a regex.
C10_CompiledOnceAtValidation ==
    (validateErr.called /\ validateErr.isNil) =>
        /\ matchCompiles = 0
        /\ hook.RouteMatchesRegex # Nil => hook.RouteMatchesRegexCompiled # None
        /\ hook.MethodMatchesRegex # Nil =>
              hook.MethodMatchesRegexCompiled # None

(***************************************************************************)
(* Fail-closed behaviour of the pipeline, checked under Spec.              *)
(***************************************************************************)
\* C11: a request reached the upstream only if runHook returned true for
\* each of the four event types and the interceptor returned Proxy; a request
\* with a hook phase that failed (an InternalError, such as a consult
\* timeout, included) is answered with the hook's response and is never
\* forwarded.
C11_FailClosed ==
    \A r \in DOMAIN call :
        LET c == call[r] IN
        /\ (c.upstreamBody # None \/ c.proxy # None
              \/ (c.response # None /\ c.response[1].kind = "proxied")) =>
              /\ c.runHookReturned = <<TRUE, TRUE, TRUE, TRUE>>
              /\ c.interceptorResult # None
              /\ c.interceptorResult[1].Result = "proxy"
              /\ c.disposition = "Proxy"
        /\ (\E i \in 1..Len(c.runHookReturned) : ~c.runHookReturned[i]) =>
              /\ c.upstreamBody = None
              /\ c.proxy = None
              /\ c.disposition \in HookDispositions
              /\ c.disposition = "InternalError" =>
                    c.response = Some([kind |-> "internalError"])

\* C11 witness: the third hook phase failed with an internal error after two
\* phases continued; the request got the internal-error response and was not
\* forwarded.
C11_Witness ==
    \E r \in DOMAIN call :
        /\ call[r].disposition = "InternalError"
        /\ call[r].runHookReturned = <<TRUE, TRUE, FALSE>>
        /\ call[r].response = Some([kind |-> "internalError"])
        /\ call[r].upstreamBody = None

ConcurrentReqs == {"r1", "r2"}

\* The outcomes of the matched hooks in the concurrent specification: they
\* let the request pass, with or without a response rewrite.
PassingOutcomes ==
    { [type |-> "Continue"],
      [type |-> "ContinueWithResponseRewrite",
       fields |-> [custom_field |-> "v1"]],
      [type |-> "ContinueWithResponseRewrite", fields |-> [other |-> "w"]] }

\* A handler that sets ModifyResponse through the shared pointer.
ChooseReverseProxyInPlace(shared, funcs) ==
    IF Len(funcs) = 0
    THEN [shared |-> shared, used |-> [shared |-> TRUE,
                                       ModifyResponse |-> shared.ModifyResponse]]
    ELSE [shared |-> [shared EXCEPT !.ModifyResponse = Modifier(funcs)],
          used |-> [shared |-> TRUE, ModifyResponse |-> Modifier(funcs)]]

\* login.go:89-99: the reverse proxy to serve through (`used`: the shared one,
\* or a copy of it carrying the chained modifier) and the shared reverse
\* proxy as the handler leaves it.
ChooseReverseProxy(shared, funcs) ==
    IF Len(funcs) = 0
    THEN [shared |-> shared, used |-> [shared |-> TRUE,
                                       ModifyResponse |-> shared.ModifyResponse]]
    ELSE [shared |-> shared,
          used |-> [shared |-> FALSE, ModifyResponse |-> Modifier(funcs)]]

\* login.go:61-65 for a request whose matched hooks all let it pass.
RunPassingPhase(r) ==
    /\ alive
    /\ call[r].pc = "hooks"
    /\ \E outs \in SeqsUpTo(PassingOutcomes, MaxMatched) :
         LET res == runHook(outs, call[r].httpResponseModifierFuncs) IN
         /\ Len(res.funcs) <= MaxQueue
         /\ call' = [call EXCEPT ![r] = PhaseLoopStep(call[r], res)]
    /\ UNCHANGED <<alive, reverseProxy, hookVars>>

\* login.go:67-99: the interceptor returns Proxy, the reverse proxy is chosen.
ChooseProxy(r) ==
    /\ alive
    /\ call[r].pc = "intercept"
    /\ \E ir \in InterceptorResults :
         /\ ir.Result = InterceptorResultProxy
         /\ LET ch == ChooseReverseProxy(
                          reverseProxy, call[r].httpResponseModifierFuncs)
            IN /\ reverseProxy' = ch.shared
               /\ call' = [call EXCEPT
                             ![r] = [@ EXCEPT !.pc = "serving",
                                              !.interceptorResult = Some(ir),
                                              !.trace = Append(@, "intercept"),
                                              !.proxy = Some(ch.used)]]
    /\ UNCHANGED <<alive, hookVars>>

\* login.go:101: ServeHTTP; ModifyResponse is read from the reverse proxy
\* served through once the upstream has answered.
ServeThroughProxy(r) ==
    /\ alive
    /\ call[r].pc = "serving"
    /\ \E ub \in UpstreamBodies :
         LET used == call[r].proxy[1]
             proxy == IF used.shared
                      THEN [used EXCEPT
                              !.ModifyResponse = reverseProxy.ModifyResponse]
                      ELSE used
             out == ServeHTTP(proxy, ub)
         IN call' = [call EXCEPT
                       ![r] = [@ EXCEPT
                                 !.pc = "done",
                                 !.trace = Append(@, "serveHTTP"),
                                 !.upstreamBody = Some(ub),
                                 !.response = Some([kind |-> "proxied",
                                                    body |-> out.body]),
                                 !.applied = out.applied,
                                 !.disposition = "Proxy"]]
    /\ UNCHANGED <<alive, reverseProxy, hookVars>>

PassingPhaseEvaluated == \E r \in DOMAIN call : RunPassingPhase(r)

ProxyChosen == \E r \in DOMAIN call : ChooseProxy(r)

ProxyServed == \E r \in DOMAIN call : ServeThroughProxy(r)

InitConcurrent ==
    /\ alive = TRUE
    /\ reverseProxy = [ModifyResponse |-> NoModifier]
    /\ call = [r \in ConcurrentReqs |-> IdleCall]
    /\ hook = DefaultHook
    /\ HookIdle

NextConcurrent ==
    \/ HandlerEntered
    \/ PassingPhaseEvaluated
    \/ RequestDenied
    \/ ProxyChosen
    \/ ProxyServed

SpecConcurrent == InitConcurrent /\ [][NextConcurrent]_vars

\* C13: concurrently handled requests share no mutable state of a request.
\* The shared reverse proxy's ModifyResponse is never changed; a request with
\* queued modifiers serves through a copy of its own carrying exactly its
\* queue; and every proxied request has exactly its own queued modifiers run
\* on its response: none at all, and the upstream body unchanged, when it
\* queued none.
C13_NoSharedRequestState ==
    /\ reverseProxy = [ModifyResponse |-> NoModifier]
    /\ \A r \in DOMAIN call :
         LET c == call[r]
             funcs == call[r].httpResponseModifierFuncs
         IN /\ (c.proxy # None /\ funcs # <<>>) =>
                  c.proxy[1] = [shared |-> FALSE,
                                ModifyResponse |-> Modifier(funcs)]
            /\ (c.proxy # None /\ funcs = <<>>) =>
                  c.proxy[1] = [shared |-> TRUE, ModifyResponse |-> NoModifier]
            /\ c.disposition = "Proxy" =>
                  /\ c.applied = funcs
                  /\ funcs = <<>> =>
                        c.response = Some([kind |-> "proxied",
                                           body |-> c.upstreamBody[1]])

\* C13 witness: r2 was proxied with an empty queue and got the upstream body
\* as it was, while r1 is between installing its modifiers and being served.
C13_Witness ==
    /\ call["r1"].pc = "serving"
    /\ call["r1"].httpResponseModifierFuncs # <<>>
    /\ call["r1"].proxy[1].ModifyResponse.set
    /\ call["r2"].disposition = "Proxy"
    /\ call["r2"].httpResponseModifierFuncs = <<>>
    /\ call["r2"].applied = <<>>
    /\ call["r2"].response =
          Some([kind |-> "proxied", body |-> call["r2"].upstreamBody[1]])

(***************************************************************************)
(* Matching at request time and the shared Hook, checked under SpecHook.   *)
(***************************************************************************)
\* C14: on a Hook for which Validate() returned nil, every MatchesRequest()
\* call returns true or false: it never panics.
C14_MatchingIsTotal ==
    (validateErr.called /\ validateErr.isNil /\ matchResult.called) =>
        matchResult.value \in {"true", "false"}

\* C14 witness: a validated Hook with both regexes configured was matched
\* against a request and returned true.
C14_Witness ==
    /\ validateErr.called
    /\ validateErr.isNil
    /\ hook.MethodMatchesRegex = "^(POST|PUT)$"
    /\ hook.RouteMatchesRegex = "login"
    /\ matchRequest = Some([Method |-> "POST", RequestURI |-> "/login?x=1"])
    /\ matchResult = [called |-> TRUE, value |-> "true"]

\* C15: no Validate() or MatchesRequest() call writes the Hook held by the
\* policy: every step leaves each of its fields, the compiled-matcher fields
\* included, as it was, so calls on the same Hook share nothing they write.
C15_HookNeverMutated == [][hook' = hook]_vars

\* C15 witness: a Hook with both regexes configured was validated and then
\* matched twice; its compiled-matcher fields are as they were when loaded.
C15_Witness ==
    /\ validateErr.called
    /\ validateErr.isNil
    /\ matchCalls >= 2
    /\ matchResult.called
    /\ hook.RouteMatchesRegex = "^/login$"
    /\ hook.MethodMatchesRegex = "^(POST|PUT)$"
    /\ hook.RouteMatchesRegexCompiled = None
    /\ hook.MethodMatchesRegexCompiled = None

\* C16 (as claimed): a Hook registered for an event type the login pipeline
\* evaluates, with an id, a known action and well-formed regexes, passes
\* Validate().
C16_PipelineEventTypesValidate ==
    ( /\ validateErr.called
      /\ IsStringInArray(hook.EventType, hooksToRun)
      /\ hook.ID # ""
      /\ IsStringInArray(hook.Action, knownActions)
      /\ CompilesIfPresent(hook.RouteMatchesRegex)
      /\ CompilesIfPresent(hook.MethodMatchesRegex) )
    => validateErr.isNil

====
